---- MODULE Spec2Model ----
(***************************************************************************)
(* Model of the subtitle search engine (src/subtitle_search_engine.py) and *)
(* of its caller load_search_engine (src/app.py).                          *)
(*                                                                         *)
(* A Python str is a sequence of one-character strings; positions are      *)
(* 1-based here and 0-based in the source.  Word offsets and DataFrame     *)
(* positions and labels keep the source's 0-based numbering.               *)
(***************************************************************************)
EXTENDS Integers, Sequences, FiniteSets, TLC

VARIABLES
    \* clean_text applied once and twice to one input
    cl_pc, cl_text, cl_once, cl_twice,
    \* one call of create_document_chunks: its arguments, its locals (words,
    \* the loop variable i, chunks) and the value of i at every append
    ck_pc, ck_text, ck_size, ck_overlap, ck_words, ck_i, ck_chunks, ck_starts,
    \* the attributes of one SubtitleSearchEngine
    data_path, model_type, sample_ratio, subtitle_data, embeddings, model,
    vectorizer, chunk_to_doc_map, chunks,
    \* the last method called on it: its arguments, the locals of search at
    \* its end, and what it raised or returned
    called, query, top_k, similarities, top_indices, top_docs, raised, returned,
    results,
    \* what a caller has kept of one earlier search on the index as it is now:
    \* the arguments, what cosine_similarity and argsort gave, the outcome
    earlier,
    \* app.py: the content of the file in the data folder, the content of the
    \* file held by the uploader, the store of st.cache_resource, the number
    \* of temporary files made, how often load_search_engine has built an
    \* engine for a content, mode and ratio, and the last run of main: the
    \* content at its data_path and the engine it got
    data_file, uploaded_file, cache_resource, temp_files, constructed, run

cleanVars == <<cl_pc, cl_text, cl_once, cl_twice>>
chunkVars == <<ck_pc, ck_text, ck_size, ck_overlap, ck_words, ck_i, ck_chunks, ck_starts>>
engineVars ==
    <<data_path, model_type, sample_ratio, subtitle_data, embeddings, model,
      vectorizer, chunk_to_doc_map, chunks>>
callVars ==
    <<called, query, top_k, similarities, top_indices, top_docs, raised, returned,
      results>>
appVars == <<data_file, uploaded_file, cache_resource, temp_files, constructed, run>>
vars == <<cleanVars, chunkVars, engineVars, callVars, earlier, appVars>>

----------------------------------------------------------------------------
(* Characters and the character classes of Python's re module.             *)

Digits == {"0", "1", "2", "3", "4", "5", "6", "7", "8", "9"}
Whitespace == {" ", "\n", "\t", "\r"}

IsDigit(c) == c \in Digits
IsSpace(c) == c \in Whitespace

Max(S) == CHOOSE x \in S : \A y \in S : y <= x
Min(S) == CHOOSE x \in S : \A y \in S : x <= y

\* The string s without the characters at the positions in R: what
\* re.sub(pattern, '', s) leaves when R is the union of the matches.
Delete(s, R) ==
    LET indexed == [i \in 1..Len(s) |-> <<i, s[i]>>]
        kept == SelectSeq(indexed, LAMBDA p : p[1] \notin R)
    IN  [k \in 1..Len(kept) |-> kept[k][2]]

----------------------------------------------------------------------------
(* clean_text, line 115: \d{2}:\d{2}:\d{2},\d{3} --> \d{2}:\d{2}:\d{2},\d{3} *)
(* "d" stands for \d, every other entry for itself.                         *)

TimestampPattern ==
    <<"d", "d", ":", "d", "d", ":", "d", "d", ",", "d", "d", "d",
      " ", "-", "-", ">", " ",
      "d", "d", ":", "d", "d", ":", "d", "d", ",", "d", "d", "d">>

TimestampAt(s, i) ==
    /\ i >= 1
    /\ i + Len(TimestampPattern) - 1 <= Len(s)
    /\ \A k \in 1..Len(TimestampPattern) :
          IF TimestampPattern[k] = "d"
          THEN IsDigit(s[i + k - 1])
          ELSE s[i + k - 1] = TimestampPattern[k]

\* re.sub replaces the leftmost non-overlapping matches: a match at i counts
\* unless a counted match that started before it still covers i.
RECURSIVE TimestampMatch(_, _)
TimestampMatch(s, i) ==
    /\ TimestampAt(s, i)
    /\ \A j \in (i - Len(TimestampPattern) + 1)..(i - 1) : ~TimestampMatch(s, j)

TimestampSpans(s) ==
    UNION {i..(i + Len(TimestampPattern) - 1) :
              i \in {j \in 1..Len(s) : s[j] \in Digits /\ TimestampMatch(s, j)}}

RemoveTimestamps(s) == Delete(s, TimestampSpans(s))

(* clean_text, line 118: ^\d+$ with re.MULTILINE.  ^ matches at the start  *)
(* of the string and after a newline, $ at its end and before a newline.   *)

LineStart(s, i) == i = 1 \/ s[i - 1] = "\n"
LineEnd(s, i) == i = Len(s) \/ s[i + 1] = "\n"

DigitRun(s, a, b) == a <= b /\ \A j \in a..b : IsDigit(s[j])

IndexLineSpans(s) ==
    {p \in {q \in 1..Len(s) : IsDigit(s[q])} :
        \E a \in 1..p, b \in p..Len(s) :
            DigitRun(s, a, b) /\ LineStart(s, a) /\ LineEnd(s, b)}

RemoveIndexLines(s) == Delete(s, IndexLineSpans(s))

(* clean_text, line 121: <[^>]+>.  A match runs from a "<" to the first    *)
(* ">" after it, with at least one character between them; a "<" inside a  *)
(* match closes at the same ">", so the union of the candidate spans is    *)
(* the union of the leftmost non-overlapping matches.                      *)

TagSpans(s) ==
    LET opens == {i \in 1..Len(s) : s[i] = "<"}
        closes == {k \in 1..Len(s) : s[k] = ">"}
    IN  UNION {i..k : <<i, k>> \in
                 {m \in opens \X closes :
                     /\ m[2] >= m[1] + 2
                     /\ \A j \in (m[1] + 1)..(m[2] - 1) : s[j] # ">"}}

RemoveTags(s) == Delete(s, TagSpans(s))

(* clean_text, line 124: re.sub(r'\s+', ' ', text).strip().  Of every run  *)
(* of whitespace the first character stays, as a space, unless the run is  *)
(* at the start or the end of the string.                                  *)

CollapseWhitespace(s) ==
    LET solid == {i \in 1..Len(s) : ~IsSpace(s[i])}
        first == IF solid = {} THEN 0 ELSE Min(solid)
        last == IF solid = {} THEN 0 ELSE Max(solid)
        dropped == {i \in 1..Len(s) :
                      /\ IsSpace(s[i])
                      /\ \/ i < first
                         \/ i > last
                         \/ IsSpace(s[i - 1])}
        kept == Delete(s, dropped)
    IN  [k \in 1..Len(kept) |-> IF IsSpace(kept[k]) THEN " " ELSE kept[k]]

clean_text(text) ==
    CollapseWhitespace(RemoveTags(RemoveIndexLines(RemoveTimestamps(text))))

----------------------------------------------------------------------------
(* Inputs of clean_text: concatenations of a few subtitle fragments.       *)

TimestampHead == <<"0", "0", ":", "0", "0", ":", "0", "1", ",", "0", "0", "0", " ", "-">>
TimestampTail == <<"-", ">", " ", "0", "0", ":", "0", "0", ":", "0", "2", ",", "0", "0", "0">>

Fragments ==
    {TimestampHead, TimestampTail, <<"7">>, <<"a">>, <<" ">>, <<"\n">>,
     <<"<", "i", ">">>, <<"<">>, <<">">>}

MaxFragments == 3

RECURSIVE Concat(_)
Concat(parts) == IF parts = <<>> THEN <<>> ELSE Head(parts) \o Concat(Tail(parts))

CleanInputs ==
    {Concat(parts) : parts \in UNION {[1..n -> Fragments] : n \in 0..MaxFragments}}

CleanIdle ==
    /\ cl_pc = "idle"
    /\ cl_text = <<>>
    /\ cl_once = <<>>
    /\ cl_twice = <<>>

CleanStart ==
    /\ cl_pc = "input"
    /\ cl_text \in CleanInputs
    /\ cl_once = <<>>
    /\ cl_twice = <<>>

CleanOnce ==
    /\ cl_pc = "input"
    /\ cl_once' = clean_text(cl_text)
    /\ cl_pc' = "once"
    /\ UNCHANGED <<cl_text, cl_twice>>
    /\ UNCHANGED <<chunkVars, engineVars, callVars, earlier, appVars>>

CleanTwice ==
    /\ cl_pc = "once"
    /\ cl_twice' = clean_text(cl_once)
    /\ cl_pc' = "twice"
    /\ UNCHANGED <<cl_text, cl_once>>
    /\ UNCHANGED <<chunkVars, engineVars, callVars, earlier, appVars>>

----------------------------------------------------------------------------
(* create_document_chunks, lines 139-169.                                  *)

\* str.split(): the maximal runs of non-whitespace characters, in order.
split(s) ==
    LET positions == [i \in 1..Len(s) |-> i]
        starts == SelectSeq(positions,
                      LAMBDA p : ~IsSpace(s[p]) /\ (p = 1 \/ IsSpace(s[p - 1])))
        ends == SelectSeq(positions,
                      LAMBDA p : ~IsSpace(s[p]) /\ (p = Len(s) \/ IsSpace(s[p + 1])))
    IN  [k \in 1..Len(starts) |-> SubSeq(s, starts[k], ends[k])]

\* ' '.join(ws), halving the list.
RECURSIVE join(_)
join(ws) ==
    IF Len(ws) = 0 THEN <<>>
    ELSE IF Len(ws) = 1 THEN ws[1]
    ELSE LET h == Len(ws) \div 2
         IN  join(SubSeq(ws, 1, h)) \o <<" ">> \o join(SubSeq(ws, h + 1, Len(ws)))

\* words[i:j] for 0 <= i: a slice stops at the end of the list.
Slice(ws, i, j) == SubSeq(ws, i + 1, IF j < Len(ws) THEN j ELSE Len(ws))

\* line 157
FitsOneChunk(words, chunk_size) == Len(words) <= chunk_size

\* a variant that returns the re-joined words instead of the text itself
WholeTextRejoined(text) == <<join(split(text))>>

\* line 158
WholeText(text) == <<text>>

\* a variant that steps past the window instead of back into it
StepPastWindow(chunk_size, overlap) == chunk_size + overlap

\* line 161: the step of range(0, len(words), chunk_size - overlap)
Step(chunk_size, overlap) == chunk_size - overlap

\* a variant whose slice is one word too long
ChunkAtOneMore(words, i, chunk_size) == join(Slice(words, i, i + chunk_size + 1))

\* line 162
ChunkAt(words, i, chunk_size) == join(Slice(words, i, i + chunk_size))

\* a variant that goes on when the window ends exactly at the last word
ReachedEndStrict(words, i, chunk_size) == i + chunk_size > Len(words)

\* line 166
ReachedEnd(words, i, chunk_size) == i + chunk_size >= Len(words)

\* lines 160-169, the loop from the iteration at i on
RECURSIVE ChunkLoop(_, _, _, _, _)
ChunkLoop(words, chunk_size, overlap, i, emitted) ==
    IF i >= Len(words) THEN emitted
    ELSE LET appended == Append(emitted, ChunkAt(words, i, chunk_size))
         IN  IF ReachedEnd(words, i, chunk_size) THEN appended
             ELSE ChunkLoop(words, chunk_size, overlap,
                            i + Step(chunk_size, overlap), appended)

create_document_chunks(text, chunk_size, overlap) ==
    IF text = <<>> THEN <<>>
    ELSE LET words == split(text)
         IN  IF FitsOneChunk(words, chunk_size) THEN WholeText(text)
             ELSE ChunkLoop(words, chunk_size, overlap, 0, <<>>)

(* The same call, one loop iteration per step.                             *)

MaxTextLen == 7
MaxChunkSize == 3

ChunkTexts == UNION {[1..n -> {"a", "b", " "}] : n \in 0..MaxTextLen}

ChunkIdle ==
    /\ ck_pc = "idle"
    /\ ck_text = <<>>
    /\ ck_size = 0
    /\ ck_overlap = 0
    /\ ck_words = <<>>
    /\ ck_i = 0
    /\ ck_chunks = <<>>
    /\ ck_starts = <<>>

\* the documented precondition: 0 < overlap < chunk_size
ChunkStart ==
    /\ ck_pc = "call"
    /\ ck_text \in ChunkTexts
    /\ ck_size \in 2..MaxChunkSize
    /\ ck_overlap \in 1..(ck_size - 1)
    /\ ck_words = <<>>
    /\ ck_i = 0
    /\ ck_chunks = <<>>
    /\ ck_starts = <<>>

\* lines 151-160
ChunkCall ==
    /\ ck_pc = "call"
    /\ IF ck_text = <<>>
       THEN /\ ck_pc' = "done"
            /\ UNCHANGED <<ck_words, ck_chunks>>
       ELSE /\ ck_words' = split(ck_text)
            /\ IF FitsOneChunk(split(ck_text), ck_size)
               THEN ck_chunks' = WholeText(ck_text) /\ ck_pc' = "done"
               ELSE ck_chunks' = <<>> /\ ck_pc' = "loop"
    /\ UNCHANGED <<ck_text, ck_size, ck_overlap, ck_i, ck_starts>>
    /\ UNCHANGED <<cleanVars, engineVars, callVars, earlier, appVars>>

\* lines 161-167: one iteration, and the range's next value
ChunkIterate ==
    /\ ck_pc = "loop"
    /\ ck_chunks' = Append(ck_chunks, ChunkAt(ck_words, ck_i, ck_size))
    /\ ck_starts' = Append(ck_starts, ck_i)
    /\ IF ReachedEnd(ck_words, ck_i, ck_size)
       THEN ck_pc' = "done" /\ ck_i' = ck_i
       ELSE /\ ck_i' = ck_i + Step(ck_size, ck_overlap)
            /\ ck_pc' = IF ck_i + Step(ck_size, ck_overlap) < Len(ck_words)
                        THEN "loop" ELSE "done"
    /\ UNCHANGED <<ck_text, ck_size, ck_overlap, ck_words>>
    /\ UNCHANGED <<cleanVars, engineVars, callVars, earlier, appVars>>

----------------------------------------------------------------------------
(* The data files.  A path is its stem and its extension; a file is the    *)
(* text column pandas reads from it, one str per row.  A cell of the       *)
(* DataFrame is named by the row's index label, which is the row's number  *)
(* in the file: the engine never changes a text once it is loaded, so its  *)
(* cleaned text and its chunks are functions of the file's row.            *)

\* line 139: chunk_size=500, overlap=100
DefaultChunkSize == 500
DefaultOverlap == 100

\* "ab ab ... ab": one word more than three steps and a window hold, so
\* that the sliding window stops four times
LongText ==
    [i \in 1..(3 * (DefaultChunkSize + 2 * (DefaultChunkSize - DefaultOverlap) + 1) - 1) |->
        IF i % 3 = 0 THEN " " ELSE IF i % 3 = 1 THEN "a" ELSE "b"]

ShortCsv == [stem |-> "short", ext |-> ".csv"]
PairTxt == [stem |-> "pair", ext |-> ".txt"]
LongJson == [stem |-> "long", ext |-> ".json"]
NoiseCsv == [stem |-> "noise", ext |-> ".csv"]
MovieSrt == [stem |-> "movie", ext |-> ".srt"]

Paths == {ShortCsv, PairTxt, LongJson, NoiseCsv, MovieSrt}

TextColumn(path) ==
    CASE path = ShortCsv ->
           << <<"a", "b", " ", "c", "d">>,
              <<"c", "d", " ", "e", "f">>,
              <<"7">>,
              <<"<", "i", ">", "a", "b", "<", "/", "i", ">", " ", "g", "h">> >>
      [] path = PairTxt ->
           << <<"a", "b", " ", "c", "d", "\n">>,
              <<"e", "f", "\n">> >>
      [] path = LongJson ->
           << LongText,
              <<"c", "d">> >>
      [] path = NoiseCsv ->
           << <<"7">>,
              <<"<", "i", ">">> >>
      [] OTHER -> << >>

\* lines 34-61
SupportedExtensions == {".csv", ".json", ".txt"}

\* line 135, per file and row (0-based label)
CleanedColumn ==
    [path \in Paths |->
        [r \in 1..Len(TextColumn(path)) |-> clean_text(TextColumn(path)[r])]]

\* line 182, per file and row
RowChunks ==
    [path \in Paths |->
        [r \in 1..Len(TextColumn(path)) |->
            create_document_chunks(CleanedColumn[path][r],
                                   DefaultChunkSize, DefaultOverlap)]]

----------------------------------------------------------------------------
(* load_data, lines 63-67: DataFrame.sample(frac, random_state=42).        *)

\* numpy.random.RandomState(42).permutation(n), which sample draws from
Permutation42(n) ==
    CASE n = 0 -> << >>
      [] n = 1 -> <<0>>
      [] n = 2 -> <<1, 0>>
      [] n = 3 -> <<0, 1, 2>>
      [] n = 4 -> <<1, 3, 0, 2>>
      [] n = 5 -> <<1, 4, 2, 0, 3>>
      [] n = 6 -> <<0, 1, 5, 2, 4, 3>>

\* Python's round(num / den): to the nearest integer, a half to the even one
RoundHalfEven(num, den) ==
    LET q == num \div den
        r == num % den
    IN  IF 2 * r < den THEN q
        ELSE IF 2 * r > den THEN q + 1
        ELSE IF q % 2 = 0 THEN q ELSE q + 1

\* sample_ratio is held in tenths; 5 and 10 are exact as floats
Tenths == 10

\* the index of frame.sample(frac=ratio, random_state=42): the first
\* round(frac * len) entries of the permutation, as labels
SampledIndex(index, ratio) ==
    LET size == RoundHalfEven(ratio * Len(index), Tenths)
    IN  [k \in 1..size |-> index[Permutation42(Len(index))[k] + 1]]

\* the RangeIndex of a frame just read
RangeIndex(n) == [k \in 1..n |-> k - 1]

\* lines 64-67
LoadedIndex(n, ratio) ==
    IF ratio < Tenths THEN SampledIndex(RangeIndex(n), ratio) ELSE RangeIndex(n)

----------------------------------------------------------------------------
(* vectorize_documents, lines 177-201.                                     *)

None == [none |-> TRUE]
\* chunk_to_doc_map and chunks are no attributes until vectorize_documents
Unset == [unset |-> TRUE]

\* lines 181-184: the chunks of the rows in frame order, each with the
\* label iterrows gave for its row
RECURSIVE AllChunks(_, _)
AllChunks(path, index) ==
    IF index = << >> THEN << >>
    ELSE LET idx == Head(index)
             n == Len(RowChunks[path][idx + 1])
         IN  [k \in 1..n |-> [doc |-> idx, part |-> k]]
               \o AllChunks(path, Tail(index))

\* lines 184, 186
ChunkToDocMap(all_chunks) == [j \in 1..Len(all_chunks) |-> all_chunks[j].doc]

\* TfidfVectorizer's tokens, (?u)\b\w\w+\b: the runs of two or more word
\* characters
WordChars == Digits \cup {"a", "b", "c", "d", "e", "f", "g", "h", "i", "_"}

Tokens(s) ==
    LET positions == [i \in 1..Len(s) |-> i]
        starts == SelectSeq(positions,
                      LAMBDA p : s[p] \in WordChars /\ (p = 1 \/ s[p - 1] \notin WordChars))
        ends == SelectSeq(positions,
                      LAMBDA p : s[p] \in WordChars /\ (p = Len(s) \/ s[p + 1] \notin WordChars))
    IN  {SubSeq(s, starts[k], ends[k]) : k \in {j \in 1..Len(starts) : ends[j] > starts[j]}}

\* A chunk's vector is a function of its text: it is named by the first
\* chunk of the file, <<row, part>>, with the same text.
VectorOf(path, r, k) ==
    LET same == {c \in UNION {{<<q, p>> : p \in 1..Len(RowChunks[path][q])} :
                                q \in 1..Len(RowChunks[path])} :
                    RowChunks[path][c[1]][c[2]] = RowChunks[path][r][k]}
        row == Min({c[1] : c \in same})
    IN  <<row, Min({c[2] : c \in {d \in same : d[1] = row}})>>

\* lines 192 and 197, per file, row and part: the vector of a chunk and,
\* for TF-IDF, the terms it weighs
ChunkVectors ==
    [path \in Paths |->
        [r \in 1..Len(RowChunks[path]) |->
            [k \in 1..Len(RowChunks[path][r]) |->
                [vector |-> VectorOf(path, r, k),
                 terms |-> Tokens(RowChunks[path][r][k])]]]]

\* line 192: the rows of the TF-IDF matrix
TfidfRows(path, all_chunks) ==
    [j \in 1..Len(all_chunks) |->
        ChunkVectors[path][all_chunks[j].doc + 1][all_chunks[j].part]]

\* line 197: the sentence embeddings
DenseRows(path, all_chunks) ==
    [j \in 1..Len(all_chunks) |->
        [vector |-> ChunkVectors[path][all_chunks[j].doc + 1][all_chunks[j].part].vector]]

\* line 189: only 'keyword' selects TF-IDF, every other value the
\* sentence-embedding model
UsesTfidf(type) == type = "keyword"

----------------------------------------------------------------------------
(* search, lines 205-257.                                                  *)

\* Cosine similarities are kept as levels 0..MaxScore, ordered as the
\* floats are; level 0 of a TF-IDF similarity is the float 0.0.
MaxScore == 1
MaxTopK == 2

\* lines 224-231: what cosine_similarity can give.  Between TF-IDF rows it
\* is 0.0 exactly when the query and the chunk share no term of the
\* vocabulary; chunks with the same vector get the same similarity.
Similarities(type, rows, fitted, clean_query) ==
    LET vectors == {rows[j].vector : j \in 1..Len(rows)}
        levels == IF UsesTfidf(type) THEN 1..MaxScore ELSE 0..MaxScore
        query_terms == Tokens(clean_query) \cap fitted.vocabulary
        disjoint ==
            IF UsesTfidf(type)
            THEN {j \in 1..Len(rows) : query_terms \cap rows[j].terms = {}}
            ELSE {}
    IN  {[j \in 1..Len(rows) |-> IF j \in disjoint THEN 0 ELSE level[rows[j].vector]] :
            level \in [vectors -> levels]}

\* line 234: np.argsort(similarities)[::-1][:m], chunk indices from 0.
\* argsort's default sort is not stable: equal similarities come in any
\* order.  Lines 237-245 read a chunk index only for its document and its
\* similarity, so among the equal chunks of one document the one of least
\* index stands for all.
RECURSIVE TopIndices(_, _, _, _)
TopIndices(sims, map, rest, m) ==
    IF m = 0 \/ rest = {} THEN {<< >>}
    ELSE LET greatest == {b \in rest : \A d \in rest : sims[d + 1] <= sims[b + 1]}
             next == {b \in greatest :
                         \A d \in greatest : map[d + 1] = map[b + 1] => b <= d}
         IN  UNION {{<<c>> \o t : t \in TopIndices(sims, map, rest \ {c}, m - 1)} :
                       c \in next}

\* lines 237-242: the dict doc_scores, as its items in insertion order
RECURSIVE DocScores(_, _, _, _)
DocScores(indices, sims, map, doc_scores) ==
    IF indices = << >> THEN doc_scores
    ELSE LET chunk_idx == Head(indices)
             doc_idx == map[chunk_idx + 1]
             score == sims[chunk_idx + 1]
             held == {k \in 1..Len(doc_scores) : doc_scores[k][1] = doc_idx}
             updated ==
                 IF held = {} THEN Append(doc_scores, <<doc_idx, score>>)
                 ELSE [k \in 1..Len(doc_scores) |->
                          IF k \in held /\ score > doc_scores[k][2]
                          THEN <<doc_idx, score>> ELSE doc_scores[k]]
         IN  DocScores(Tail(indices), sims, map, updated)

\* what line 245 would be if the sort put the later of two equal items first
SortedTiesReversed(items) ==
    LET before(j, k) ==
            items[j][2] > items[k][2] \/ (items[j][2] = items[k][2] /\ j > k)
        rank(k) == Cardinality({j \in 1..Len(items) : before(j, k)}) + 1
    IN  [r \in 1..Len(items) |-> items[CHOOSE k \in 1..Len(items) : rank(k) = r]]

\* line 245: sorted(items, key=score, reverse=True), a stable sort
SortedByScore(items) ==
    LET before(j, k) ==
            items[j][2] > items[k][2] \/ (items[j][2] = items[k][2] /\ j < k)
        rank(k) == Cardinality({j \in 1..Len(items) : before(j, k)}) + 1
    IN  [r \in 1..Len(items) |-> items[CHOOSE k \in 1..Len(items) : rank(k) = r]]

\* line 245: [:top_k]
First(items, k) == SubSeq(items, 1, IF k < Len(items) THEN k ELSE Len(items))

\* lines 233-245
TopDocs(sims, indices, map, k) ==
    First(SortedByScore(DocScores(indices, sims, map, << >>)), k)

\* lines 224-245: the similarities, the top chunks and the top documents a
\* search can compute
Rankings(type, rows, fitted, clean_query, map, k) ==
    UNION {{<<sims, indices, TopDocs(sims, indices, map, k)>> :
               indices \in TopIndices(sims, map, 0..(Len(sims) - 1), k * 2)} :
             sims \in Similarities(type, rows, fitted, clean_query)}

\* line 250: iloc is by position; past the last row it raises IndexError
IlocOutOfBounds(docs, index) == \E k \in 1..Len(docs) : docs[k][1] >= Len(index)

\* lines 248-255: a result's document is the row at position doc_idx,
\* named here by that row's label
Results(docs, index) ==
    [k \in 1..Len(docs) |-> [score |-> docs[k][2], document |-> index[docs[k][1] + 1]]]

----------------------------------------------------------------------------
(* The engine's methods.                                                   *)

ModelTypes == {"keyword", "semantic", "fuzzy"}
SampleRatios == {5, 10}
Queries == {<<" ">>, <<"a", "b">>}

\* lines 12-27
EngineInit ==
    /\ data_path \in Paths
    /\ model_type \in ModelTypes
    /\ sample_ratio \in SampleRatios
    /\ subtitle_data = None
    /\ embeddings = None
    /\ model = None
    /\ vectorizer = None
    /\ chunk_to_doc_map = Unset
    /\ chunks = Unset
    /\ called = "__init__"
    /\ query = << >>
    /\ top_k = 0
    /\ similarities = << >>
    /\ top_indices = << >>
    /\ top_docs = << >>
    /\ raised = "none"
    /\ returned = "nothing"
    /\ results = << >>
    /\ earlier = None

EngineIdle ==
    /\ data_path = None
    /\ model_type = "none"
    /\ sample_ratio = 0
    /\ subtitle_data = None
    /\ embeddings = None
    /\ model = None
    /\ vectorizer = None
    /\ chunk_to_doc_map = Unset
    /\ chunks = Unset
    /\ called = "idle"
    /\ query = << >>
    /\ top_k = 0
    /\ similarities = << >>
    /\ top_indices = << >>
    /\ top_docs = << >>
    /\ raised = "none"
    /\ returned = "nothing"
    /\ results = << >>
    /\ earlier = None

\* a method other than search ends: what it raised or returned
Ends(method, exception, value) ==
    /\ called' = method
    /\ raised' = exception
    /\ returned' = value
    /\ query' = << >>
    /\ top_k' = 0
    /\ similarities' = << >>
    /\ top_indices' = << >>
    /\ top_docs' = << >>
    /\ results' = << >>

\* lines 29-76
LoadData ==
    /\ called # "idle"
    /\ IF data_path.ext \notin SupportedExtensions
       THEN /\ Ends("load_data", "ValueError", "nothing")
            /\ UNCHANGED subtitle_data
       ELSE /\ subtitle_data' =
                  [index |-> LoadedIndex(Len(TextColumn(data_path)), sample_ratio),
                   columns |-> {"text"}]
            /\ Ends("load_data", "none", "True")
    /\ UNCHANGED <<data_path, model_type, sample_ratio, embeddings, model,
                   vectorizer, chunk_to_doc_map, chunks>>
    /\ UNCHANGED <<cleanVars, chunkVars, earlier, appVars>>

\* lines 128-137
PreprocessData ==
    /\ called # "idle"
    /\ IF subtitle_data = None
       THEN /\ Ends("preprocess_data", "none", "False")
            /\ UNCHANGED subtitle_data
       ELSE /\ subtitle_data' =
                  [subtitle_data EXCEPT !.columns = @ \cup {"cleaned_text"}]
            /\ Ends("preprocess_data", "none", "True")
    /\ UNCHANGED <<data_path, model_type, sample_ratio, embeddings, model,
                   vectorizer, chunk_to_doc_map, chunks>>
    /\ UNCHANGED <<cleanVars, chunkVars, earlier, appVars>>

\* lines 171-203
VectorizeDocuments ==
    /\ called # "idle"
    /\ UNCHANGED <<data_path, model_type, sample_ratio, subtitle_data>>
    /\ UNCHANGED <<cleanVars, chunkVars, appVars>>
    /\ IF subtitle_data = None
       THEN \* line 173: None has no attribute 'columns'
            /\ Ends("vectorize_documents", "AttributeError", "nothing")
            /\ UNCHANGED <<embeddings, model, vectorizer, chunk_to_doc_map, chunks>>
       ELSE IF "cleaned_text" \notin subtitle_data.columns
       THEN /\ Ends("vectorize_documents", "none", "False")
            /\ UNCHANGED <<embeddings, model, vectorizer, chunk_to_doc_map, chunks>>
       ELSE LET all_chunks == AllChunks(data_path, subtitle_data.index)
                rows == TfidfRows(data_path, all_chunks)
                vocabulary == UNION {rows[j].terms : j \in 1..Len(rows)}
            IN  /\ chunk_to_doc_map' = ChunkToDocMap(all_chunks)
                /\ IF UsesTfidf(model_type)
                   THEN IF vocabulary = {}
                        THEN \* line 192: fit_transform raises "empty vocabulary"
                             /\ vectorizer' = [fitted |-> FALSE]
                             /\ Ends("vectorize_documents", "ValueError", "nothing")
                             /\ UNCHANGED <<embeddings, model, chunks>>
                        ELSE /\ vectorizer' = [fitted |-> TRUE, vocabulary |-> vocabulary]
                             /\ embeddings' = [rows |-> rows]
                             /\ chunks' = all_chunks
                             /\ Ends("vectorize_documents", "none", "True")
                             /\ UNCHANGED model
                   ELSE /\ model' = [name |-> "all-MiniLM-L6-v2"]
                        /\ embeddings' = [rows |-> DenseRows(data_path, all_chunks)]
                        /\ chunks' = all_chunks
                        /\ Ends("vectorize_documents", "none", "True")
                        /\ UNCHANGED vectorizer
    \* an index built anew is not the index of the earlier search
    /\ earlier' = IF returned' = "True" THEN None ELSE earlier

\* what lines 216-218 would be with a raise in place of the return
SearchBeforeIndexRaises ==
    /\ raised' = "IndexNotBuiltError"
    /\ returned' = "nothing"
    /\ results' = << >>
    /\ similarities' = << >>
    /\ top_indices' = << >>
    /\ top_docs' = << >>
    /\ UNCHANGED engineVars

\* lines 216-218: no index yet
SearchBeforeIndex ==
    /\ raised' = "none"
    /\ returned' = "list"
    /\ results' = << >>
    /\ similarities' = << >>
    /\ top_indices' = << >>
    /\ top_docs' = << >>
    /\ UNCHANGED engineVars

\* what lines 205-257 would be if search took the first chunk off the map
SearchConsumesMap ==
    /\ chunk_to_doc_map' = Tail(chunk_to_doc_map)
    /\ UNCHANGED <<data_path, model_type, sample_ratio, subtitle_data, embeddings,
                   model, vectorizer, chunks>>

\* lines 205-257: search assigns no attribute of the engine
SearchKeepsEngine == UNCHANGED engineVars

\* the caller's note: a search with other arguments came after the kept one
Between(q, k) ==
    earlier' = IF earlier = None THEN None
               ELSE [earlier EXCEPT
                        !.between = @ \/ q # earlier.query \/ k # earlier.top_k]

\* lines 205-257
Search(q, k) ==
    /\ called # "idle"
    /\ Between(q, k)
    /\ called' = "search"
    /\ query' = q
    /\ top_k' = k
    /\ UNCHANGED <<cleanVars, chunkVars, appVars>>
    /\ IF embeddings = None
       THEN SearchBeforeIndex
       ELSE IF ~UsesTfidf(model_type) /\ Len(embeddings.rows) = 0
       THEN \* line 231: cosine_similarity refuses an empty array of embeddings
            /\ raised' = "ValueError"
            /\ returned' = "nothing"
            /\ results' = << >>
            /\ similarities' = << >>
            /\ top_indices' = << >>
            /\ top_docs' = << >>
            /\ SearchKeepsEngine
       ELSE \E ranking \in Rankings(model_type, embeddings.rows, vectorizer,
                                     clean_text(q), chunk_to_doc_map, k) :
               /\ similarities' = ranking[1]
               /\ top_indices' = ranking[2]
               /\ top_docs' = ranking[3]
               /\ SearchKeepsEngine
               /\ IF IlocOutOfBounds(ranking[3], subtitle_data.index)
                  THEN /\ raised' = "IndexError"
                       /\ returned' = "nothing"
                       /\ results' = << >>
                  ELSE /\ raised' = "none"
                       /\ returned' = "list"
                       /\ results' = Results(ranking[3], subtitle_data.index)

\* app.py, lines 118-120: the caller of search keeps what it returned.
\* The similarities and the top chunks are kept with it.
Keep ==
    /\ called = "search"
    /\ embeddings # None
    /\ earlier' = [query |-> query, top_k |-> top_k, similarities |-> similarities,
                   top_indices |-> top_indices, raised |-> raised, results |-> results,
                   between |-> FALSE]
    /\ UNCHANGED <<cleanVars, chunkVars, engineVars, callVars, appVars>>

----------------------------------------------------------------------------
(* app.py: main and load_search_engine.  A corpus file is known here by    *)
(* its content; an engine by the content, mode and ratio it was built      *)
(* from.                                                                   *)

Contents == {"first", "second"}
\* no file in the folder, none given to the uploader
NoFile == "no file"
\* lines 32-36
OfferedModelTypes == {"semantic", "keyword"}
\* lines 39-46, in tenths: the slider's default and its maximum
OfferedSampleRatios == {3, 10}
DataSources == {"Upload File", "Use Downloaded Data"}
MaxTempFiles == 2

\* lines 69-82: the file selected in the data folder.  Files are told
\* apart by a number, the selected file having number 0.
SelectedFile == [folder |-> "./data", file |-> 0]
\* line 61: NamedTemporaryFile makes a file of a name not in use
TempFile(n) == [folder |-> "/tmp", file |-> n]

AppIdle ==
    /\ data_file = NoFile
    /\ uploaded_file = NoFile
    /\ cache_resource = {}
    /\ temp_files = 0
    /\ constructed = << >>
    /\ run = None

AppInit ==
    /\ data_file \in Contents
    /\ uploaded_file = NoFile
    /\ cache_resource = {}
    /\ temp_files = 0
    /\ constructed =
           [k \in Contents \X OfferedModelTypes \X OfferedSampleRatios |-> 0]
    /\ run = None

\* the file in the data folder gets another content
ReplaceDataFile(content) ==
    /\ content # data_file
    /\ data_file' = content
    /\ UNCHANGED <<uploaded_file, cache_resource, temp_files, constructed, run>>
    /\ UNCHANGED <<cleanVars, chunkVars, engineVars, callVars, earlier>>

\* line 57: the user gives the uploader a file
UploadFile(content) ==
    /\ content # uploaded_file
    /\ uploaded_file' = content
    /\ UNCHANGED <<data_file, cache_resource, temp_files, constructed, run>>
    /\ UNCHANGED <<cleanVars, chunkVars, engineVars, callVars, earlier>>

\* lines 15-22: st.cache_resource keys the engine by the arguments of the
\* call; the body runs when the key is not in the store
load_search_engine(path, content, type, ratio) ==
    LET key == <<path, type, ratio>>
        cached == {entry \in cache_resource : entry.key = key}
        engine == [corpus |-> content, model_type |-> type, sample_ratio |-> ratio]
    IN  IF cached # {}
        THEN /\ run' = [content |-> content,
                        search_engine |-> (CHOOSE entry \in cached : TRUE).engine]
             /\ UNCHANGED <<cache_resource, constructed>>
        ELSE /\ cache_resource' = cache_resource \cup {[key |-> key, engine |-> engine]}
             /\ constructed' =
                    [constructed EXCEPT ![<<content, type, ratio>>] = @ + 1]
             /\ run' = [content |-> content, search_engine |-> engine]

\* lines 24-176: one run of the script, as every use of a widget and every
\* search starts one
Main(data_source, type, ratio) ==
    /\ data_file # NoFile
    /\ UNCHANGED <<data_file, uploaded_file>>
    /\ UNCHANGED <<cleanVars, chunkVars, engineVars, callVars, earlier>>
    /\ IF data_source = "Upload File"
       THEN IF uploaded_file = NoFile
            THEN \* line 178: no data_path
                 /\ run' = None
                 /\ UNCHANGED <<cache_resource, temp_files, constructed>>
            ELSE \* lines 61-63 and 172-174: a temporary file for this run
                 /\ temp_files < MaxTempFiles
                 /\ temp_files' = temp_files + 1
                 /\ load_search_engine(TempFile(temp_files + 1), uploaded_file,
                                       type, ratio)
       ELSE \* lines 81-82
            /\ load_search_engine(SelectedFile, data_file, type, ratio)
            /\ UNCHANGED temp_files

----------------------------------------------------------------------------
InitClean == CleanStart /\ ChunkIdle /\ EngineIdle /\ AppIdle
NextClean == CleanOnce \/ CleanTwice
SpecClean == InitClean /\ [][NextClean]_vars

\* A call runs to its return: the loop is not suspended forever.
InitChunk == ChunkStart /\ CleanIdle /\ EngineIdle /\ AppIdle
NextChunk == ChunkCall \/ ChunkIterate
SpecChunk == InitChunk /\ [][NextChunk]_vars /\ WF_vars(NextChunk)

\* One engine, its methods called in any order with any arguments.
Init == EngineInit /\ CleanIdle /\ ChunkIdle /\ AppIdle
Next ==
    \/ LoadData
    \/ PreprocessData
    \/ VectorizeDocuments
    \/ \E q \in Queries, k \in 0..MaxTopK : Search(q, k)
Spec == Init /\ [][Next]_vars

\* The same engine on the files of at most two rows and in the two modes
\* app.py offers, with a caller that compares a search with
\* an earlier one.
RepeatPaths == {PairTxt, NoiseCsv, MovieSrt}
InitRepeat == Init /\ data_path \in RepeatPaths /\ model_type \in OfferedModelTypes
NextRepeat == Next \/ Keep
SpecRepeat == InitRepeat /\ [][NextRepeat]_vars

\* The UI: runs of main, with the corpus files changing between them.
InitApp == AppInit /\ CleanIdle /\ ChunkIdle /\ EngineIdle
NextApp ==
    \/ \E content \in Contents : ReplaceDataFile(content)
    \/ \E content \in Contents : UploadFile(content)
    \/ \E data_source \in DataSources, type \in OfferedModelTypes,
          ratio \in OfferedSampleRatios : Main(data_source, type, ratio)
SpecApp == InitApp /\ [][NextApp]_vars

----------------------------------------------------------------------------
(* Properties of the engine, stated of the state a call to search leaves.  *)

Searched == called = "search" /\ embeddings # None
Answered == Searched /\ raised = "none"

\* the documents that own a chunk of the index, and a document's score:
\* the greatest similarity among all of its chunks
IndexedDocs == {chunk_to_doc_map[j] : j \in 1..Len(chunk_to_doc_map)}
ChunksOf(doc) == {j \in 1..Len(chunk_to_doc_map) : chunk_to_doc_map[j] = doc}
DocScore(doc) == Max({similarities[j] : j \in ChunksOf(doc)})

\* C1: whatever the corpus and the sample ratio, every result of a search
\* carries the row that owns the chunk behind its score (the row the chunk
\* map names is the row iloc fetches), and the lookup never falls outside
\* the loaded rows.
C1_ResultCarriesChunkOwner ==
    Searched =>
        /\ raised # "IndexError"
        /\ raised = "none" =>
               \A k \in 1..Len(results) : results[k].document = top_docs[k][1]

\* C2: a search returns the first top_k of all indexed documents sorted by
\* their score, the greatest similarity over all of a document's chunks, in
\* descending order: exactly min(top_k, number of indexed documents)
\* entries.
C2_TopKOfAllDocuments ==
    Answered =>
        /\ Len(results) = Min({top_k, Cardinality(IndexedDocs)})
        /\ \A k \in 1..Len(results) :
               /\ results[k].score = DocScore(top_docs[k][1])
               /\ k > 1 => results[k - 1].score >= results[k].score
               /\ \A doc \in IndexedDocs \ {top_docs[j][1] : j \in 1..Len(top_docs)} :
                      DocScore(doc) <= results[k].score

\* C3: a query that clean_text reduces to the empty string gets the empty
\* result list from a built index, and nothing is raised.
C3_EmptyQueryGivesNoResult ==
    (Searched /\ clean_text(query) = << >>) =>
        (raised = "none" /\ results = << >>)

\* C4 as claimed: a search before the index is built surfaces an error.
C4_IndexNotBuiltError ==
    (called = "search" /\ embeddings = None) => raised # "none"

\* C4: a search before the index is built raises nothing and returns the
\* empty list, the value of a search that found no document, and leaves
\* the engine as it was.
C4_SearchBeforeIndexReturnsEmpty ==
    [][(called' = "search" /\ embeddings = None) =>
          /\ engineVars' = engineVars
          /\ raised' = "none"
          /\ returned' = "list"
          /\ results' = << >>]_vars

\* a search on loaded and cleaned data whose index was never built
C4_Witness ==
    /\ called = "search"
    /\ embeddings = None
    /\ subtitle_data # None
    /\ "cleaned_text" \in subtitle_data.columns
    /\ query = <<"a", "b">>
    /\ top_k = MaxTopK
    /\ returned = "list"
    /\ results = << >>

\* C5: an engine whose model_type is neither 'keyword' nor 'semantic' never
\* builds an index with either strategy.
C5_UnsupportedModeRejected ==
    model_type \notin {"keyword", "semantic"} =>
        (embeddings = None /\ model = None /\ vectorizer = None)

\* The surfaced chunks are those of top_indices; a document is surfaced if
\* one of its chunks is.  Its place is that of its first chunk in
\* top_indices, its surfaced score the greatest similarity among them.
PlacesOf(doc) ==
    {j \in 1..Len(top_indices) : chunk_to_doc_map[top_indices[j] + 1] = doc}
SurfacedDocs == {chunk_to_doc_map[top_indices[j] + 1] : j \in 1..Len(top_indices)}
FirstSeen(doc) == Min(PlacesOf(doc))
SurfacedScore(doc) == Max({similarities[top_indices[j] + 1] : j \in PlacesOf(doc)})
Precedes(doc, other) ==
    \/ SurfacedScore(doc) > SurfacedScore(other)
    \/ SurfacedScore(doc) = SurfacedScore(other) /\ FirstSeen(doc) < FirstSeen(other)

\* C11: the list a search returns has one entry for each of the first top_k
\* surfaced documents in descending order of score, documents of equal
\* score in the order they were first met among the surfaced chunks; no
\* document comes twice, each carries the greatest similarity among its
\* surfaced chunks, and with top_k = 0 the list is empty.
C11_RankedByScoreThenFirstSeen ==
    Answered =>
        /\ Len(results) = Min({top_k, Cardinality(SurfacedDocs)})
        /\ Len(top_docs) = Len(results)
        /\ \A k \in 1..Len(results) :
               /\ top_docs[k][1] \in SurfacedDocs
               /\ results[k].score = SurfacedScore(top_docs[k][1])
               /\ \A j \in 1..(k - 1) :
                      /\ Precedes(top_docs[j][1], top_docs[k][1])
                      /\ results[j].score >= results[k].score
                      /\ results[j].document # results[k].document
               /\ \A doc \in SurfacedDocs \ {top_docs[j][1] : j \in 1..Len(top_docs)} :
                      Precedes(top_docs[k][1], doc)
        /\ top_k = 0 => results = << >>

\* two documents of equal score returned in the order they were met, which
\* is not the order of their rows, one of them with surfaced chunks of
\* different similarity
C11_Witness ==
    /\ Answered
    /\ Len(results) = 2
    /\ results[1].score = results[2].score
    /\ top_docs[1][1] > top_docs[2][1]
    /\ FirstSeen(top_docs[1][1]) < FirstSeen(top_docs[2][1])
    /\ \E j, k \in PlacesOf(top_docs[2][1]) :
           similarities[top_indices[j] + 1] # similarities[top_indices[k] + 1]

\* the search just made has the arguments of the kept one, and
\* cosine_similarity and argsort, which are functions, gave what they gave
SameCall ==
    /\ called = "search"
    /\ embeddings # None
    /\ earlier # None
    /\ query = earlier.query
    /\ top_k = earlier.top_k
    /\ similarities = earlier.similarities
    /\ top_indices = earlier.top_indices

CalledTooEarly ==
    \/ called' = "preprocess_data" /\ subtitle_data = None
    \/ /\ called' = "vectorize_documents"
       /\ (subtitle_data = None \/ "cleaned_text" \notin subtitle_data.columns)
    \/ called' = "search" /\ embeddings = None

\* C14: in whatever order the methods are called, a call made before what
\* it needs is there raises nothing, returns False (search: the empty
\* list), and leaves subtitle_data, embeddings, vectorizer, model and
\* chunk_to_doc_map as they were.
C14_EarlyCallsAreGuarded ==
    [][CalledTooEarly =>
          /\ raised' = "none"
          /\ returned' = IF called' = "search" THEN "list" ELSE "False"
          /\ results' = << >>
          /\ UNCHANGED <<subtitle_data, embeddings, vectorizer, model,
                         chunk_to_doc_map>>]_vars

----------------------------------------------------------------------------
(* Properties of the UI, stated of the runs of main so far.                *)

ConstructedOnce == \A k \in DOMAIN constructed : constructed[k] <= 1
NeverStale == run # None => run.search_engine.corpus = run.content

\* C13: for one corpus content, mode and sample ratio an engine is built at
\* most once, whether the corpus comes from the data folder or from the
\* uploader, and a run on a changed corpus never gets an engine built from
\* the old content.
C13_IndexOncePerSnapshot == ConstructedOnce /\ NeverStale

----------------------------------------------------------------------------
(* Properties of clean_text.                                               *)

\* C6: clean_text is idempotent: cleaning a cleaned text changes nothing.
C6_CleanTextIdempotent == cl_pc = "twice" => cl_twice = cl_once

----------------------------------------------------------------------------
(* Properties of create_document_chunks, stated of a finished call.        *)

ChunkDone == ck_pc = "done"
WordCount == Len(split(ck_text))
ChunkWords(k) == split(ck_chunks[k])

\* C7 as claimed: a text of at most chunk_size words, the empty text
\* included, yields exactly one chunk, equal to the text.
C7_OneChunkEqualToText ==
    (ChunkDone /\ WordCount <= ck_size) => ck_chunks = <<ck_text>>

\* C7 as amended: a non-empty text of at most chunk_size words (whitespace
\* only included) yields exactly one chunk, equal to the text; the empty
\* text yields no chunk.
C7_OneChunkUnlessEmpty ==
    (ChunkDone /\ WordCount <= ck_size) =>
        ck_chunks = IF ck_text = <<>> THEN <<>> ELSE <<ck_text>>

\* a whitespace-only text of several characters came back as its one chunk
C7_Witness ==
    /\ ChunkDone
    /\ Len(ck_text) >= 2
    /\ WordCount = 0
    /\ ck_chunks = <<ck_text>>

\* C8: with more than chunk_size words, every word index in [0, n) lies in
\* a returned chunk, at its place in that chunk, and the chunks come in
\* source order: their start offsets never decrease.
C8_ChunksCoverInOrder ==
    (ChunkDone /\ WordCount > ck_size) =>
        /\ Len(ck_starts) = Len(ck_chunks)
        /\ \A w \in 0..(WordCount - 1) :
              \E k \in 1..Len(ck_chunks) :
                 /\ ck_starts[k] <= w
                 /\ w < ck_starts[k] + Len(ChunkWords(k))
                 /\ ChunkWords(k)[w - ck_starts[k] + 1] = split(ck_text)[w + 1]
        /\ \A k \in 1..(Len(ck_starts) - 1) : ck_starts[k] <= ck_starts[k + 1]

\* a text longer than one window was cut into three chunks
C8_Witness ==
    /\ ChunkDone
    /\ WordCount > ck_size
    /\ Len(ck_chunks) = 3

\* C9: no chunk has more than chunk_size words, and two consecutive chunks,
\* the pair ending in the final chunk left aside, share exactly overlap
\* words: the last overlap words of one are the first overlap words of the
\* next, and the two windows have no other position in common.
C9_ChunkSizeAndOverlap ==
    ChunkDone =>
        /\ \A k \in 1..Len(ck_chunks) : Len(ChunkWords(k)) <= ck_size
        /\ \A k \in 1..(Len(ck_chunks) - 2) :
              /\ ck_starts[k] + Len(ChunkWords(k)) - ck_starts[k + 1] = ck_overlap
              /\ Len(ChunkWords(k + 1)) >= ck_overlap
              /\ SubSeq(ChunkWords(k), Len(ChunkWords(k)) - ck_overlap + 1,
                        Len(ChunkWords(k)))
                   = SubSeq(ChunkWords(k + 1), 1, ck_overlap)

\* three chunks that differ, each sharing one word with the next
C9_Witness ==
    /\ ChunkDone
    /\ Len(ck_chunks) >= 3
    /\ ck_overlap = 1
    /\ ChunkWords(1) # ChunkWords(2)

\* the starts the loop visited: 0, step, 2*step, ..., each inside the text,
\* the last one the first whose window reaches the end of the text
StartsAsClaimed ==
    /\ Len(ck_starts) >= 1
    /\ Len(ck_chunks) = Len(ck_starts)
    /\ \A k \in 1..Len(ck_starts) :
          /\ ck_starts[k] = (k - 1) * (ck_size - ck_overlap)
          /\ ck_starts[k] < WordCount
          /\ ck_chunks[k] # <<>>
          /\ (ck_starts[k] + ck_size >= WordCount) <=> (k = Len(ck_starts))

\* C10: the sliding-window loop terminates, and when it ran (more than
\* chunk_size words) it emitted windows at 0, step, 2*step, ..., halted
\* right after the first window whose end reaches or exceeds n, and
\* emitted no chunk that starts at or after n.
C10_LoopTerminatesAtFirstFullReach ==
    /\ [](ChunkDone => IF WordCount > ck_size THEN StartsAsClaimed
                                              ELSE ck_starts = <<>>)
    /\ <>ChunkDone

\* the loop ran three iterations and stopped with the window at the end
C10_Witness ==
    /\ ChunkDone
    /\ WordCount > ck_size
    /\ Len(ck_starts) = 3
    /\ ck_starts[3] + ck_size = WordCount

====
